---- MODULE Spec2Model ----
(***************************************************************************)
(* Model of the upload orchestration of the document library:              *)
(*   src/src/hooks/useDocumentUpload.ts   (useDocumentUpload)              *)
(*   src/src/services/documentService.ts  (validateFile, uploadDocument,   *)
(*                                         getDocumentStatus)              *)
(*   src/src/constants/api.ts             (FILE_VALIDATION)                *)
(*                                                                         *)
(* JavaScript runs every callback to completion: the synchronous part of   *)
(* uploadFiles between two awaits is a chain of steps taken while          *)
(* `running` names the call, and no other callback is enabled meanwhile.   *)
(* Every setUploads updater is one step, so that every value the           *)
(* collection takes is a state of the model.                               *)
(***************************************************************************)
EXTENDS Naturals, Integers, Sequences, FiniteSets, TLC

VARIABLES
    uploads,      \* useState<UploadProgress[]>: the collection of records
    isUploading,  \* useState(false)
    calls,        \* the invocations of uploadFiles: their position and locals
    running,      \* the uploadFiles call executing synchronous code, or 0
    xfer,         \* per upload id: the transport request of uploadDocument
    poll,         \* per upload id: the pollStatus closure (timer / request)
    pollN,        \* per upload id: status responses received so far
    nextId,       \* generateUploadId: the next fresh id
    removed,      \* history, per upload id: "cancel" once cancelUpload was
                  \* called with it, "clear" if clearCompleted removed it
    polledAtCancel, \* history: the ids cancelled while their poller was attached
    pollers,      \* per upload id: the pollStatus callbacks pending, as timers
                  \* set and not yet fired or as status requests unanswered
    vIn,          \* validateFile: the (file, rules) it is called with
    vOut,         \* validateFile: <<>>, then <<the FileValidationResult returned>>
    storage,      \* localStorage: auth_token and user_data
    pathname,     \* window.location.pathname
    http,         \* the request of the HTTP client under way, and its outcome
    surfaced,     \* the Error thrown to the caller of the last failed request
    rt,           \* withRetry: its position, its arguments and what it has done
    auth,         \* useAuth: token, user, isLoading
    loginCall,    \* useAuth.login: its position and the error it rethrew
    boot,         \* useAuth: the initializeAuth effect of the page load
    view          \* what the router shows: the path and the element rendered

uploadVars == <<uploads, isUploading, calls, running, xfer, poll, pollN, nextId, removed, polledAtCancel, pollers>>
validateVars == <<vIn, vOut>>
httpVars == <<storage, pathname, http, surfaced>>

retryVars == <<rt>>
authVars == <<auth, loginCall, boot, view>>

vars == <<uploadVars, validateVars, httpVars, retryVars, authVars>>

----------------------------------------------------------------------------
(* Bounds of the model *)

\* records created over all uploadFiles calls
MaxUploads == 2
\* non-terminal status responses one poller may receive
MaxPolls == 1

\* the uploadFiles invocations of one run (two, so that calls can overlap)
Calls == {1, 2}

Ids == 1..MaxUploads

NoVal == "undefined"

----------------------------------------------------------------------------
(* constants/api.ts *)

MAX_FILE_SIZE == 50 * 1024 * 1024

ALLOWED_TYPES ==
    { "application/pdf", "application/msword",
      "application/vnd.openxmlformats-officedocument.wordprocessingml.document",
      "application/vnd.ms-excel",
      "application/vnd.openxmlformats-officedocument.spreadsheetml.sheet",
      "application/vnd.ms-powerpoint",
      "application/vnd.openxmlformats-officedocument.presentationml.presentation",
      "application/zip", "image/jpeg", "image/png", "image/gif", "image/bmp",
      "image/webp" }

ALLOWED_EXTENSIONS ==
    ".pdf, .doc, .docx, .xls, .xlsx, .ppt, .pptx, .zip, .jpg, .jpeg, .png, .gif, .bmp, .webp"

DefaultRules == [maxSize |-> MAX_FILE_SIZE, allowedTypes |-> ALLOWED_TYPES]

----------------------------------------------------------------------------
(* documentService.validateFile *)

\* Math.round(maxSize / (1024 * 1024)) for a non-negative maxSize
RoundMB(maxSize) == (2 * maxSize + 1024 * 1024) \div (2 * 1024 * 1024)

\* Mutant of validateFile: the type is checked before the size.
validateFileTypeFirst(file, rules) ==
    IF file.type \notin rules.allowedTypes
    THEN [isValid |-> FALSE,
          error |-> "File type not supported. Allowed types: " \o ALLOWED_EXTENSIONS]
    ELSE IF file.size > rules.maxSize
    THEN [isValid |-> FALSE,
          error |-> "File size must be less than " \o ToString(RoundMB(rules.maxSize)) \o "MB"]
    ELSE [isValid |-> TRUE, error |-> NoVal]

\* Mutant of validateFile: the type check is missing.
validateFileSizeOnly(file, rules) ==
    IF file.size > rules.maxSize
    THEN [isValid |-> FALSE,
          error |-> "File size must be less than " \o ToString(RoundMB(rules.maxSize)) \o "MB"]
    ELSE [isValid |-> TRUE, error |-> NoVal]

validateFile(file, rules) ==
    IF file.size > rules.maxSize
    THEN [isValid |-> FALSE,
          error |-> "File size must be less than " \o ToString(RoundMB(rules.maxSize)) \o "MB"]
    ELSE IF file.type \notin rules.allowedTypes
    THEN [isValid |-> FALSE,
          error |-> "File type not supported. Allowed types: " \o ALLOWED_EXTENSIONS]
    ELSE [isValid |-> TRUE, error |-> NoVal]

\* The files a caller may submit: a valid one, one over the size limit, one
\* of a type outside the allow-list.
Files ==
    { [name |-> "ok.pdf",  size |-> 1024 * 1024,       type |-> "application/pdf"],
      [name |-> "big.pdf", size |-> MAX_FILE_SIZE + 1, type |-> "application/pdf"],
      [name |-> "a.txt",   size |-> 1024,              type |-> "text/plain"] }

----------------------------------------------------------------------------
(* The document service, seen from the client *)

\* response.status of POST /api/documents/upload
UploadStatuses == {"pending", "processing", "completed", "failed"}

\* the id the service gives the document uploaded for record `id`
DocIdOf(id) == "doc_" \o ToString(id)

\* what `await documentService.uploadDocument(file)` can produce for record
\* `id`: the response body, or the Error thrown by handleError
UploadOutcomes(id) ==
    { [ok |-> TRUE, status |-> s, id |-> DocIdOf(id), entity_id |-> NoVal, message |-> NoVal]
        : s \in UploadStatuses }
    \cup
    { [ok |-> FALSE, status |-> NoVal, id |-> NoVal, entity_id |-> NoVal, message |-> m]
        : m \in {"Network Error"} }

\* what `await documentService.getDocumentStatus(result.id)` can produce
StatusOutcomes ==
    { [ok |-> TRUE, status |-> "completed", error_message |-> NoVal],
      [ok |-> TRUE, status |-> "failed", error_message |-> NoVal],
      [ok |-> TRUE, status |-> "failed", error_message |-> "OCR failed"],
      [ok |-> TRUE, status |-> "processing", error_message |-> NoVal],
      [ok |-> TRUE, status |-> "pending", error_message |-> NoVal],
      [ok |-> FALSE, status |-> NoVal, error_message |-> NoVal] }

----------------------------------------------------------------------------
(* useDocumentUpload: the collection and its updaters *)

Fields == {"id", "fileName", "progress", "status", "error", "documentId", "entityId"}

\* { ...upload, ...updates }
Merge(upload, updates) ==
    [f \in Fields |-> IF f \in DOMAIN updates THEN updates[f] ELSE upload[f]]

\* Mutant of updateUpload: an update for an id that is not in the collection
\* inserts a record for it (update-or-insert instead of map).
updateOrInsertUpload(prev, id, updates) ==
    IF \E k \in 1..Len(prev) : prev[k].id = id
    THEN [k \in 1..Len(prev) |-> IF prev[k].id = id THEN Merge(prev[k], updates) ELSE prev[k]]
    ELSE Append(prev,
             Merge([id |-> id, fileName |-> NoVal, progress |-> 0, status |-> "uploading",
                    error |-> NoVal, documentId |-> NoVal, entityId |-> NoVal], updates))

\* Mutant of updateUpload: the updated record is taken out and put back at
\* the end of the collection.
updateUploadMoveLast(prev, id, updates) ==
    IF \E k \in 1..Len(prev) : prev[k].id = id
    THEN SelectSeq(prev, LAMBDA u : u.id # id)
         \o <<Merge(CHOOSE u \in {prev[k] : k \in 1..Len(prev)} : u.id = id, updates)>>
    ELSE prev

\* prev.map(upload => upload.id === id ? { ...upload, ...updates } : upload)
updateUpload(prev, id, updates) ==
    [k \in 1..Len(prev) |-> IF prev[k].id = id THEN Merge(prev[k], updates) ELSE prev[k]]

\* prev.filter(upload => upload.id !== id)
removeUpload(prev, id) == SelectSeq(prev, LAMBDA u : u.id # id)

\* Mutant of clearCompletedFilter: only completed records are removed.
clearOnlyCompleted(prev) == SelectSeq(prev, LAMBDA u : u.status # "completed")

\* prev.filter(upload => upload.status !== 'completed' && upload.status !== 'error')
clearCompletedFilter(prev) ==
    SelectSeq(prev, LAMBDA u : u.status # "completed" /\ u.status # "error")

\* files.map(file => ({ id: generateUploadId(), fileName, progress: 0, status: 'uploading' }))
newUploads(files, first) ==
    [k \in 1..Len(files) |->
        [id |-> first + k - 1, fileName |-> files[k].name, progress |-> 0,
         status |-> "uploading", error |-> NoVal, documentId |-> NoVal,
         entityId |-> NoVal]]

NoResult == [ok |-> FALSE, status |-> NoVal, id |-> NoVal, entity_id |-> NoVal, message |-> NoVal]

IdleCall == [pc |-> "idle", files |-> <<>>, ids |-> <<>>, i |-> 1, result |-> NoResult]

\* the batches a caller may still submit when `room` records may be created
Batches(room) == UNION { [1..n -> Files] : n \in 0..room }

IdsOf(coll) == { coll[k].id : k \in 1..Len(coll) }
Has(coll, id) == id \in IdsOf(coll)

\* a timer or a status request of record id's pollStatus is pending
PollerAttached(id) == poll[id] \in {"timer", "inflight"}

\* the ids cancelUpload has been called with
cancelled == { id \in Ids : removed[id] = "cancel" }

CurId(c) == calls[c].ids[calls[c].i]
CurFile(c) == calls[c].files[calls[c].i]

\* validateFile has not been called
ValidateIdle ==
    /\ vIn = [file |-> [name |-> "ok.pdf", size |-> 0, type |-> "application/pdf"],
              rules |-> DefaultRules]
    /\ vOut = <<>>

\* a response body as the error handlers read it: absent, a string, or an
\* object with its detail and message fields
NoData == [kind |-> "none", detail |-> NoVal, message |-> NoVal]

\* error.response is undefined
NoResponse == [present |-> FALSE, status |-> 0, data |-> NoData]

\* what a catch block may hold: an AxiosError (response?, message) or the
\* APIError (detail, status_code) made by api.ts handleError
NoError == [response |-> NoResponse, message |-> NoVal, detail |-> NoVal, status_code |-> 0]

\* nothing was thrown to the caller
NoSurfaced == [kind |-> "none", message |-> NoVal, detail |-> NoVal, status_code |-> 0]

LoggedOut == [auth_token |-> NoVal, user_data |-> NoVal]

\* nobody is logged in and the HTTP client has sent nothing
HttpIdle ==
    /\ storage = LoggedOut
    /\ pathname = "/login"
    /\ http = [op |-> NoVal, phase |-> "idle", error |-> NoError]
    /\ surfaced = NoSurfaced

\* withRetry has not been called
RetryIdle ==
    rt = [pc |-> "idle", retries |-> 0, delay |-> 0, retries0 |-> 0, delay0 |-> 0,
          invoked |-> 0, waits |-> <<>>, error |-> NoError, cause |-> NoError]

NoUser == [token |-> NoVal, user |-> NoVal, isLoading |-> TRUE]

\* the page has just loaded: useState(null), useState(null), useState(true)
AuthIdle ==
    /\ auth = NoUser
    /\ loginCall = [pc |-> "idle", failedAt |-> NoVal, cause |-> NoError, error |-> NoSurfaced]
    /\ boot = "pending"
    /\ view = [asked |-> "/login", path |-> "/login", shows |-> "spinner"]

Init ==
    /\ ValidateIdle
    /\ HttpIdle
    /\ RetryIdle
    /\ AuthIdle
    /\ uploads = <<>>
    /\ isUploading = FALSE
    /\ calls = [c \in Calls |-> IdleCall]
    /\ running = 0
    /\ xfer = [id \in Ids |-> "none"]
    /\ poll = [id \in Ids |-> "none"]
    /\ pollN = [id \in Ids |-> 0]
    /\ nextId = 1
    /\ removed = [id \in Ids |-> "no"]
    /\ polledAtCancel = {}
    /\ pollers = [id \in Ids |-> 0]

----------------------------------------------------------------------------
(* uploadFiles *)

\* Mutant of setTimeout: the callback is scheduled twice.
setTimeoutTwice(n) == n + 2

\* setTimeout(pollStatus, ...) at lines 101 and 114: one more callback of the
\* poller is pending
setTimeout(n) == n + 1

\* Mutant of Invoke: the new records replace the collection
\* (setUploads(newUploads) instead of appending to prev).
InvokeReplace(c, files) ==
    /\ running = 0
    /\ calls[c].pc = "idle"
    /\ \A d \in Calls : d < c => calls[d].pc # "idle"
    /\ IF Len(files) = 0
       THEN /\ calls' = [calls EXCEPT ![c].pc = "done"]
            /\ UNCHANGED <<uploads, isUploading, running, nextId>>
       ELSE /\ isUploading' = TRUE
            /\ uploads' = newUploads(files, nextId)
            /\ calls' = [calls EXCEPT ![c] =
                   [pc |-> "top", files |-> files,
                    ids |-> [k \in 1..Len(files) |-> nextId + k - 1],
                    i |-> 1, result |-> NoResult]]
            /\ nextId' = nextId + Len(files)
            /\ running' = c
    /\ UNCHANGED <<xfer, poll, pollN, removed, polledAtCancel>>
    /\ UNCHANGED <<pollers, validateVars, httpVars, retryVars, authVars>>

\* lines 29-42: the call, up to the start of the loop
Invoke(c, files) ==
    /\ running = 0
    /\ calls[c].pc = "idle"
    /\ \A d \in Calls : d < c => calls[d].pc # "idle"
    /\ IF Len(files) = 0
       THEN /\ calls' = [calls EXCEPT ![c].pc = "done"]
            /\ UNCHANGED <<uploads, isUploading, running, nextId>>
       ELSE /\ isUploading' = TRUE
            /\ uploads' = uploads \o newUploads(files, nextId)
            /\ calls' = [calls EXCEPT ![c] =
                   [pc |-> "top", files |-> files,
                    ids |-> [k \in 1..Len(files) |-> nextId + k - 1],
                    i |-> 1, result |-> NoResult]]
            /\ nextId' = nextId + Len(files)
            /\ running' = c
    /\ UNCHANGED <<xfer, poll, pollN, removed, polledAtCancel>>
    /\ UNCHANGED <<pollers, validateVars, httpVars, retryVars, authVars>>

\* where the loop goes after file i is dealt with (i++ of the for statement)
NextIndex(i) == i + 1

\* lines 46-52 and 132-134: the loop test, then the first update of the body
LoopTop(c) ==
    /\ running = c
    /\ calls[c].pc = "top"
    /\ IF calls[c].i > Len(calls[c].files)
       THEN /\ isUploading' = FALSE
            /\ calls' = [calls EXCEPT ![c].pc = "done"]
            /\ running' = 0
            /\ UNCHANGED uploads
       ELSE /\ uploads' = updateUpload(uploads, CurId(c), [progress |-> 25])
            /\ calls' = [calls EXCEPT ![c].pc = "validate"]
            /\ UNCHANGED <<isUploading, running>>
    /\ UNCHANGED <<xfer, poll, pollN, nextId, removed, polledAtCancel>>
    /\ UNCHANGED <<pollers, validateVars, httpVars, retryVars, authVars>>

\* lines 55-65
Validate(c) ==
    /\ running = c
    /\ calls[c].pc = "validate"
    /\ LET validation == validateFile(CurFile(c), DefaultRules) IN
       IF ~validation.isValid
       THEN /\ uploads' = updateUpload(uploads, CurId(c),
                   [status |-> "error", error |-> validation.error, progress |-> 0])
            /\ calls' = [calls EXCEPT ![c].pc = "top", ![c].i = NextIndex(@)]
       ELSE /\ uploads' = updateUpload(uploads, CurId(c), [progress |-> 50])
            /\ calls' = [calls EXCEPT ![c].pc = "call"]
    /\ UNCHANGED <<isUploading, running, xfer, poll, pollN, nextId, removed, polledAtCancel>>
    /\ UNCHANGED <<pollers, validateVars, httpVars, retryVars, authVars>>

\* Mutant of CallUpload: the upload is started without `await`, the loop goes
\* on to the next file at once.
CallUploadNoAwait(c) ==
    /\ running = c
    /\ calls[c].pc = "call"
    /\ xfer' = [xfer EXCEPT ![CurId(c)] = "inflight"]
    /\ calls' = [calls EXCEPT ![c].pc = "top", ![c].i = NextIndex(@)]
    /\ UNCHANGED <<uploads, isUploading, running, poll, pollN, nextId, removed, polledAtCancel>>
    /\ UNCHANGED <<pollers, validateVars, httpVars, retryVars, authVars>>

\* line 68 and documentService.uploadDocument lines 87-116: the service
\* validates again and throws, or posts the file; the call then awaits
CallUpload(c) ==
    /\ running = c
    /\ calls[c].pc = "call"
    /\ LET validation == validateFile(CurFile(c), DefaultRules) IN
       IF ~validation.isValid
       THEN /\ calls' = [calls EXCEPT ![c].pc = "catch",
                   ![c].result = [NoResult EXCEPT !.message = validation.error]]
            /\ UNCHANGED <<xfer, running>>
       ELSE /\ xfer' = [xfer EXCEPT ![CurId(c)] = "inflight"]
            /\ calls' = [calls EXCEPT ![c].pc = "await"]
            /\ running' = 0
    /\ UNCHANGED <<uploads, isUploading, poll, pollN, nextId, removed, polledAtCancel>>
    /\ UNCHANGED <<pollers, validateVars, httpVars, retryVars, authVars>>

\* `await` at line 68: the call resumes with the response, or in the catch
\* block with the Error
ResumeWith(c, resp) ==
    /\ xfer' = [xfer EXCEPT ![CurId(c)] = IF resp.ok THEN "ok" ELSE "failed"]
    /\ calls' = [calls EXCEPT ![c].result = resp,
                              ![c].pc = IF resp.ok THEN "after" ELSE "catch"]
    /\ running' = c

\* the upload request of call c resolves or rejects; the call resumes
UploadResolve(c) ==
    /\ running = 0
    /\ calls[c].pc = "await"
    /\ \E resp \in UploadOutcomes(CurId(c)) : ResumeWith(c, resp)
    /\ UNCHANGED <<uploads, isUploading, poll, pollN, nextId, removed, polledAtCancel>>
    /\ UNCHANGED <<pollers, validateVars, httpVars, retryVars, authVars>>

\* lines 70-74
AfterUpload(c) ==
    /\ running = c
    /\ calls[c].pc = "after"
    /\ uploads' = updateUpload(uploads, CurId(c),
           [progress |-> 75, documentId |-> calls[c].result.id,
            entityId |-> calls[c].result.entity_id])
    /\ calls' = [calls EXCEPT ![c].pc = "branch"]
    /\ UNCHANGED <<isUploading, running, xfer, poll, pollN, nextId, removed, polledAtCancel>>
    /\ UNCHANGED <<pollers, validateVars, httpVars, retryVars, authVars>>

\* Mutant of NeedsPolling: 'pending' is not tested.
NeedsPollingProcessingOnly(status) == status = "processing"

\* line 77: result.status === 'processing' || result.status === 'pending'
NeedsPolling(status) == status = "processing" \/ status = "pending"

\* Mutant of Branch: the else is missing, so a record that starts polling is
\* marked completed as well.
BranchFallThrough(c) ==
    /\ running = c
    /\ calls[c].pc = "branch"
    /\ IF NeedsPolling(calls[c].result.status)
       THEN /\ uploads' = updateUpload(
                   updateUpload(uploads, CurId(c), [status |-> "processing", progress |-> 90]),
                   CurId(c), [status |-> "completed", progress |-> 100])
            /\ poll' = [poll EXCEPT ![CurId(c)] = "timer"]
            /\ pollers' = [pollers EXCEPT ![CurId(c)] = setTimeout(@)]
       ELSE /\ uploads' = updateUpload(uploads, CurId(c),
                   [status |-> "completed", progress |-> 100])
            /\ UNCHANGED <<poll, pollers>>
    /\ calls' = [calls EXCEPT ![c].pc = "top", ![c].i = NextIndex(@),
                              ![c].result = NoResult]
    /\ UNCHANGED <<isUploading, running, xfer, pollN, nextId, removed, polledAtCancel>>
    /\ UNCHANGED <<validateVars, httpVars, retryVars, authVars>>

\* Mutant of Branch: the record is marked processing and no poller is
\* started for it.
BranchNoPoller(c) ==
    /\ running = c
    /\ calls[c].pc = "branch"
    /\ IF NeedsPolling(calls[c].result.status)
       THEN uploads' = updateUpload(uploads, CurId(c),
                   [status |-> "processing", progress |-> 90])
       ELSE uploads' = updateUpload(uploads, CurId(c),
                   [status |-> "completed", progress |-> 100])
    /\ calls' = [calls EXCEPT ![c].pc = "top", ![c].i = NextIndex(@),
                              ![c].result = NoResult]
    /\ UNCHANGED <<isUploading, running, xfer, poll, pollN, nextId, removed, polledAtCancel>>
    /\ UNCHANGED <<pollers, validateVars, httpVars, retryVars, authVars>>

\* lines 77-121: start a poller (setTimeout(pollStatus, 1000)) or complete
Branch(c) ==
    /\ running = c
    /\ calls[c].pc = "branch"
    /\ IF NeedsPolling(calls[c].result.status)
       THEN /\ uploads' = updateUpload(uploads, CurId(c),
                   [status |-> "processing", progress |-> 90])
            /\ poll' = [poll EXCEPT ![CurId(c)] = "timer"]
            /\ pollers' = [pollers EXCEPT ![CurId(c)] = setTimeout(@)]
       ELSE /\ uploads' = updateUpload(uploads, CurId(c),
                   [status |-> "completed", progress |-> 100])
            /\ UNCHANGED <<poll, pollers>>
    /\ calls' = [calls EXCEPT ![c].pc = "top", ![c].i = NextIndex(@),
                              ![c].result = NoResult]
    /\ UNCHANGED <<isUploading, running, xfer, pollN, nextId, removed, polledAtCancel>>
    /\ UNCHANGED <<validateVars, httpVars, retryVars, authVars>>

\* Mutant of Catch: the error is recorded and the batch is abandoned (the
\* loop is left, as if the error were rethrown to the outer try).
CatchAbort(c) ==
    /\ running = c
    /\ calls[c].pc = "catch"
    /\ uploads' = updateUpload(uploads, CurId(c),
           [status |-> "error", error |-> calls[c].result.message, progress |-> 0])
    /\ calls' = [calls EXCEPT ![c].pc = "top", ![c].i = Len(calls[c].files) + 1,
                              ![c].result = NoResult]
    /\ UNCHANGED <<isUploading, running, xfer, poll, pollN, nextId, removed, polledAtCancel>>
    /\ UNCHANGED <<pollers, validateVars, httpVars, retryVars, authVars>>

\* Mutant of Catch: the error is recorded and rethrown; the finally block
\* runs and the promise of uploadFiles rejects.
CatchRethrow(c) ==
    /\ running = c
    /\ calls[c].pc = "catch"
    /\ uploads' = updateUpload(uploads, CurId(c),
           [status |-> "error", error |-> calls[c].result.message, progress |-> 0])
    /\ isUploading' = FALSE
    /\ calls' = [calls EXCEPT ![c].pc = "rejected", ![c].result = NoResult]
    /\ running' = 0
    /\ UNCHANGED <<xfer, poll, pollN, nextId, removed, polledAtCancel>>
    /\ UNCHANGED <<pollers, validateVars, httpVars, retryVars, authVars>>

\* lines 123-130
Catch(c) ==
    /\ running = c
    /\ calls[c].pc = "catch"
    /\ uploads' = updateUpload(uploads, CurId(c),
           [status |-> "error", error |-> calls[c].result.message, progress |-> 0])
    /\ calls' = [calls EXCEPT ![c].pc = "top", ![c].i = NextIndex(@),
                              ![c].result = NoResult]
    /\ UNCHANGED <<isUploading, running, xfer, poll, pollN, nextId, removed, polledAtCancel>>
    /\ UNCHANGED <<pollers, validateVars, httpVars, retryVars, authVars>>

----------------------------------------------------------------------------
(* pollStatus *)

\* a timer of setTimeout(pollStatus, ...) fires: line 86 issues the request
PollFire(id) ==
    /\ running = 0
    /\ poll[id] = "timer"
    /\ poll' = [poll EXCEPT ![id] = "inflight"]
    /\ UNCHANGED <<uploads, isUploading, calls, running, xfer, pollN, nextId, removed, polledAtCancel>>
    /\ UNCHANGED <<pollers, validateVars, httpVars, retryVars, authVars>>

\* Mutant of PollNext: the poller reschedules itself after every response.
PollNextAlways(resp) == "timer"

\* Mutant of PollNext: a poll that finds the document still processing
\* gives up instead of rescheduling.
PollNextGiveUp(resp) == "stopped"

\* Mutant of PollNext: a failed status request is retried.
PollNextRetryOnFail(resp) ==
    IF ~resp.ok THEN "timer"
    ELSE IF resp.status = "completed" THEN "stopped"
    ELSE IF resp.status = "failed" THEN "stopped"
    ELSE "timer"

\* what the poller does once its request has been answered: lines 88-110
PollNext(resp) ==
    IF ~resp.ok THEN "stopped"
    ELSE IF resp.status = "completed" THEN "stopped"
    ELSE IF resp.status = "failed" THEN "stopped"
    ELSE "timer"

\* the service reports the document as still pending or processing
StillProcessing(resp) == resp.ok /\ resp.status \in {"pending", "processing"}

\* Mutant of PollUpdate: a failed status request marks the record error and
\* leaves its progress.
PollUpdateKeepProgress(prev, id, resp) ==
    IF ~resp.ok
    THEN updateUpload(prev, id,
             [status |-> "error", error |-> "Failed to check processing status"])
    ELSE IF resp.status = "completed"
    THEN updateUpload(prev, id, [status |-> "completed", progress |-> 100])
    ELSE IF resp.status = "failed"
    THEN updateUpload(prev, id,
             [status |-> "error",
              error |-> IF resp.error_message # NoVal THEN resp.error_message
                        ELSE "Processing failed",
              progress |-> 0])
    ELSE prev

\* Mutant of PollUpdate: the server's error_message is dropped.
PollUpdateGenericMessage(prev, id, resp) ==
    IF ~resp.ok
    THEN updateUpload(prev, id,
             [status |-> "error", error |-> "Failed to check processing status",
              progress |-> 0])
    ELSE IF resp.status = "completed"
    THEN updateUpload(prev, id, [status |-> "completed", progress |-> 100])
    ELSE IF resp.status = "failed"
    THEN updateUpload(prev, id,
             [status |-> "error", error |-> "Processing failed", progress |-> 0])
    ELSE prev

\* Mutant of PollUpdate: a poll that finds the document still processing
\* reports an intermediate progress of 50.
PollUpdateIntermediate(prev, id, resp) ==
    IF ~resp.ok
    THEN updateUpload(prev, id,
             [status |-> "error", error |-> "Failed to check processing status",
              progress |-> 0])
    ELSE IF resp.status = "completed"
    THEN updateUpload(prev, id, [status |-> "completed", progress |-> 100])
    ELSE IF resp.status = "failed"
    THEN updateUpload(prev, id,
             [status |-> "error",
              error |-> IF resp.error_message # NoVal THEN resp.error_message
                        ELSE "Processing failed",
              progress |-> 0])
    ELSE updateUpload(prev, id, [progress |-> 50])

PollUpdate(prev, id, resp) ==
    IF ~resp.ok
    THEN updateUpload(prev, id,
             [status |-> "error", error |-> "Failed to check processing status",
              progress |-> 0])
    ELSE IF resp.status = "completed"
    THEN updateUpload(prev, id, [status |-> "completed", progress |-> 100])
    ELSE IF resp.status = "failed"
    THEN updateUpload(prev, id,
             [status |-> "error",
              error |-> IF resp.error_message # NoVal THEN resp.error_message
                        ELSE "Processing failed",
              progress |-> 0])
    ELSE prev

\* lines 86-110: the status request of record id's poller is answered
PollResolve(id, resp) ==
    /\ running = 0
    /\ poll[id] = "inflight"
    /\ StillProcessing(resp) => pollN[id] < MaxPolls
    /\ uploads' = PollUpdate(uploads, id, resp)
    /\ poll' = [poll EXCEPT ![id] = PollNext(resp)]
    /\ pollN' = [pollN EXCEPT ![id] = IF StillProcessing(resp) THEN @ + 1 ELSE @]
    /\ pollers' = [pollers EXCEPT ![id] =
           IF PollNext(resp) = "timer" THEN setTimeout(@ - 1) ELSE @ - 1]
    /\ UNCHANGED <<isUploading, calls, running, xfer, nextId, removed, polledAtCancel>>
    /\ UNCHANGED <<validateVars, httpVars, retryVars, authVars>>

----------------------------------------------------------------------------
(* cancelUpload, clearCompleted *)

\* lines 137-140
cancelUpload(id) ==
    /\ running = 0
    /\ id < nextId
    /\ uploads' = removeUpload(uploads, id)
    /\ removed' = [removed EXCEPT ![id] = "cancel"]
    /\ polledAtCancel' = IF Has(uploads, id) /\ PollerAttached(id)
                         THEN polledAtCancel \cup {id} ELSE polledAtCancel
    /\ UNCHANGED <<isUploading, calls, running, xfer, poll, pollN, nextId>>
    /\ UNCHANGED <<pollers, validateVars, httpVars, retryVars, authVars>>

\* lines 142-146
clearCompleted ==
    /\ running = 0
    /\ uploads' = clearCompletedFilter(uploads)
    /\ removed' = [id \in Ids |->
           IF id \in IdsOf(uploads) /\ id \notin IdsOf(uploads') THEN "clear"
           ELSE removed[id]]
    /\ UNCHANGED <<isUploading, calls, running, xfer, poll, pollN, nextId, polledAtCancel>>
    /\ UNCHANGED <<pollers, validateVars, httpVars, retryVars, authVars>>

----------------------------------------------------------------------------

Next ==
    \/ \E c \in Calls : \E files \in Batches(MaxUploads - (nextId - 1)) : Invoke(c, files)
    \/ \E c \in Calls : LoopTop(c)
    \/ \E c \in Calls : Validate(c)
    \/ \E c \in Calls : CallUpload(c)
    \/ \E c \in Calls : UploadResolve(c)
    \/ \E c \in Calls : AfterUpload(c)
    \/ \E c \in Calls : Branch(c)
    \/ \E c \in Calls : Catch(c)
    \/ \E id \in Ids : PollFire(id)
    \/ \E id \in Ids : \E resp \in StatusOutcomes : PollResolve(id, resp)
    \/ \E id \in Ids : cancelUpload(id)
    \/ clearCompleted

Spec == Init /\ [][Next]_vars

\* the synchronous code of uploadFiles between two awaits
LoopStep(c) ==
    LoopTop(c) \/ Validate(c) \/ CallUpload(c) \/ AfterUpload(c) \/ Branch(c) \/ Catch(c)

\* The event loop runs every callback that is ready and every timer fires;
\* every upload request and every status request is answered, and the
\* service does not report pending or processing for ever (at most MaxPolls
\* times per document). What the user does (uploadFiles, cancelUpload,
\* clearCompleted) is under no obligation.
Fairness ==
    /\ \A c \in Calls : WF_vars(LoopStep(c))
    /\ \A c \in Calls : WF_vars(UploadResolve(c))
    /\ \A id \in Ids : WF_vars(PollFire(id))
    /\ \A id \in Ids : WF_vars(\E resp \in StatusOutcomes : PollResolve(id, resp))

\* one batch and all that follows from it: one uploadFiles call, with the
\* user free to cancel and to clear at any moment
NextLive ==
    \/ \E files \in Batches(MaxUploads - (nextId - 1)) : Invoke(1, files)
    \/ \E c \in Calls : LoopTop(c)
    \/ \E c \in Calls : Validate(c)
    \/ \E c \in Calls : CallUpload(c)
    \/ \E c \in Calls : UploadResolve(c)
    \/ \E c \in Calls : AfterUpload(c)
    \/ \E c \in Calls : Branch(c)
    \/ \E c \in Calls : Catch(c)
    \/ \E id \in Ids : PollFire(id)
    \/ \E id \in Ids : \E resp \in StatusOutcomes : PollResolve(id, resp)
    \/ \E id \in Ids : cancelUpload(id)
    \/ clearCompleted

SpecLive == Init /\ [][NextLive]_vars /\ Fairness

----------------------------------------------------------------------------
(* documentService.validateFile on its own: every (file, rules) of the sets
   below, and the result of the call *)

\* sizes around the limits: 10485760 = 10MB, 1572864 = 1.5MB
FileSizes == {0, 1024, 1572864, 1572865, 10485760, 10485761, 11000000,
              MAX_FILE_SIZE, MAX_FILE_SIZE + 1}

FileTypes == {"application/pdf", "image/png", "text/plain", ""}

RuleSets ==
    [maxSize : {1572864, 10485760, MAX_FILE_SIZE},
     allowedTypes : {ALLOWED_TYPES, {"application/pdf"}, {}}]

InitValidate ==
    /\ vIn \in [file : [name : {"f"}, size : FileSizes, type : FileTypes], rules : RuleSets]
    /\ vOut = <<>>
    /\ HttpIdle
    /\ RetryIdle
    /\ AuthIdle
    /\ uploads = <<>>
    /\ isUploading = FALSE
    /\ calls = [c \in Calls |-> IdleCall]
    /\ running = 0
    /\ xfer = [id \in Ids |-> "none"]
    /\ poll = [id \in Ids |-> "none"]
    /\ pollN = [id \in Ids |-> 0]
    /\ nextId = 1
    /\ removed = [id \in Ids |-> "no"]
    /\ polledAtCancel = {}
    /\ pollers = [id \in Ids |-> 0]

\* documentService.validateFile(file, rules) is called and returns
CallValidateFile ==
    /\ vOut = <<>>
    /\ vOut' = <<validateFile(vIn.file, vIn.rules)>>
    /\ UNCHANGED <<vIn, uploadVars, httpVars, retryVars, authVars>>

NextValidate == CallValidateFile

SpecValidate == InitValidate /\ [][NextValidate]_vars

----------------------------------------------------------------------------
(* The HTTP calls of documentService.ts and of api.ts, their failures, and
   what they do to localStorage and to the page location *)

\* JavaScript truthiness of an optional string
Truthy(v) == v # NoVal /\ v # ""

\* a || b || c on optional strings
Or3(a, b, c) == IF Truthy(a) THEN a ELSE IF Truthy(b) THEN b ELSE c

\* the bodies of a failed response
ErrorBodies ==
    { [kind |-> "object", detail |-> d, message |-> m]
        : d \in {NoVal, "Token expired"}, m \in {NoVal, "Rejected"} }
    \cup { [kind |-> "string", detail |-> NoVal, message |-> NoVal], NoData }

\* the AxiosErrors a request can fail with: a non-2xx response, or no response
AxiosErrors ==
    { [response |-> [present |-> TRUE, status |-> st, data |-> d],
       message |-> "Request failed with status code " \o ToString(st),
       detail |-> NoVal, status_code |-> 0]
        : st \in {400, 401, 500}, d \in ErrorBodies }
    \cup
    { [response |-> NoResponse, message |-> m, detail |-> NoVal, status_code |-> 0]
        : m \in {"Network Error", ""} }

\* documentService.ts handleError: the Error it returns
handleError(error) ==
    IF error.response.present /\ error.response.data.kind = "object"
    THEN [kind |-> "Error",
          message |-> Or3(error.response.data.detail, error.response.data.message,
                          "An error occurred"),
          detail |-> NoVal, status_code |-> 0]
    ELSE [kind |-> "Error",
          message |-> IF Truthy(error.message) THEN error.message
                      ELSE "An unexpected error occurred",
          detail |-> NoVal, status_code |-> 0]

\* api.ts handleError: the APIError it returns
apiHandleError(error) ==
    IF error.response.present /\ error.response.data.kind = "object"
    THEN [kind |-> "APIError", message |-> NoVal,
          detail |-> Or3(error.response.data.detail, error.response.data.message,
                         "An error occurred"),
          status_code |-> error.response.status]
    ELSE IF Truthy(error.message)
    THEN [kind |-> "APIError", message |-> NoVal, detail |-> error.message,
          status_code |-> IF error.response.present THEN error.response.status ELSE 500]
    ELSE [kind |-> "APIError", message |-> NoVal,
          detail |-> "An unexpected error occurred", status_code |-> 500]

\* an APIError caught and handed to handleError "as AxiosError": it has
\* neither response nor message
AsAxiosError(apiError) ==
    [response |-> NoResponse, message |-> NoVal,
     detail |-> apiError.detail, status_code |-> apiError.status_code]

\* the calls that go through documentService.makeRequest
MakeRequestOps == {"status", "list", "delete"}

\* the authenticated calls
HttpOps == MakeRequestOps \cup {"upload", "download", "me"}

Is401(error) == error.response.present /\ error.response.status = 401

\* a session as useAuth.login leaves it in localStorage: nothing, the token
\* alone (between setToken and the user record), or both
Sessions ==
    { LoggedOut,
      [auth_token |-> "token", user_data |-> NoVal],
      [auth_token |-> "token", user_data |-> "user"] }

InitHttp ==
    /\ storage \in Sessions
    /\ pathname \in {"/login", "/documents"}
    /\ http = [op |-> NoVal, phase |-> "idle", error |-> NoError]
    /\ surfaced = NoSurfaced
    /\ ValidateIdle
    /\ RetryIdle
    /\ AuthIdle
    /\ uploads = <<>>
    /\ isUploading = FALSE
    /\ calls = [c \in Calls |-> IdleCall]
    /\ running = 0
    /\ xfer = [id \in Ids |-> "none"]
    /\ poll = [id \in Ids |-> "none"]
    /\ pollN = [id \in Ids |-> 0]
    /\ nextId = 1
    /\ removed = [id \in Ids |-> "no"]
    /\ polledAtCancel = {}
    /\ pollers = [id \in Ids |-> 0]

\* a call is made; the request goes out with the token of localStorage
SendRequest(op) ==
    /\ http.phase # "inflight"
    /\ http' = [op |-> op, phase |-> "inflight", error |-> NoError]
    /\ surfaced' = NoSurfaced
    /\ UNCHANGED <<storage, pathname, uploadVars, validateVars, retryVars, authVars>>

\* a 2xx response: the call returns response.data
RequestSucceeds ==
    /\ http.phase = "inflight"
    /\ http' = [http EXCEPT !.phase = "done"]
    /\ UNCHANGED <<storage, pathname, surfaced, uploadVars, validateVars, retryVars, authVars>>

\* documentService.makeRequest, lines 63-74
MakeRequestFails(error) ==
    /\ http.phase = "inflight"
    /\ http.op \in MakeRequestOps
    /\ http' = [http EXCEPT !.phase = "done", !.error = error]
    /\ storage' = IF Is401(error) THEN LoggedOut ELSE storage
    /\ pathname' = IF Is401(error) THEN "/login" ELSE pathname
    /\ surfaced' = handleError(error)
    /\ UNCHANGED <<uploadVars, validateVars, retryVars, authVars>>

\* documentService.uploadDocument, lines 119-122
UploadDocumentFails(error) ==
    /\ http.phase = "inflight"
    /\ http.op = "upload"
    /\ http' = [http EXCEPT !.phase = "done", !.error = error]
    /\ surfaced' = handleError(error)
    /\ UNCHANGED <<storage, pathname, uploadVars, validateVars, retryVars, authVars>>

\* documentService.downloadDocument, lines 179-182
DownloadDocumentFails(error) ==
    /\ http.phase = "inflight"
    /\ http.op = "download"
    /\ http' = [http EXCEPT !.phase = "done", !.error = error]
    /\ surfaced' = handleError(error)
    /\ UNCHANGED <<storage, pathname, uploadVars, validateVars, retryVars, authVars>>

\* api.ts: the response interceptor, lines 46-58, then the catch of
\* getCurrentUser, lines 117-119
GetCurrentUserFails(error) ==
    /\ http.phase = "inflight"
    /\ http.op = "me"
    /\ http' = [http EXCEPT !.phase = "done", !.error = error]
    /\ storage' = IF Is401(error) THEN LoggedOut ELSE storage
    /\ pathname' = IF Is401(error) /\ pathname # "/login" THEN "/login" ELSE pathname
    /\ surfaced' = apiHandleError(AsAxiosError(apiHandleError(error)))
    /\ UNCHANGED <<uploadVars, validateVars, retryVars, authVars>>

NextHttp ==
    \/ \E op \in HttpOps : SendRequest(op)
    \/ RequestSucceeds
    \/ \E error \in AxiosErrors : MakeRequestFails(error)
    \/ \E error \in AxiosErrors : UploadDocumentFails(error)
    \/ \E error \in AxiosErrors : DownloadDocumentFails(error)
    \/ \E error \in AxiosErrors : GetCurrentUserFails(error)

SpecHttp == InitHttp /\ [][NextHttp]_vars

----------------------------------------------------------------------------
(* api.ts withRetry: one call, the invocations of its operation and the
   waits between them *)

\* the retries argument of withRetry
MaxRetries == 2

\* the delay argument of withRetry, in ms (1000 is the default)
Delays == {250, 1000}

\* what login, register and getCurrentUser throw when their request fails
\* with `cause`: the interceptor's APIError (line 57), put through
\* handleError once more by the method's catch (lines 99-101)
ApiMethodError(cause) == apiHandleError(AsAxiosError(apiHandleError(cause)))

\* how an operation may fail: a request of an HTTP client fails with the
\* AxiosError `cause` and the operation throws it, or the operation is an
\* API method of this service and throws its APIError
Failures == [cause : AxiosErrors, api : BOOLEAN]

Thrown(failure) ==
    IF failure.api THEN AsAxiosError(ApiMethodError(failure.cause)) ELSE failure.cause

\* lines 163-170
isRetryableError(error) ==
    IF error.response.present /\ error.response.status # 0
       /\ error.response.status >= 400 /\ error.response.status < 500
    THEN FALSE
    ELSE ~error.response.present \/ error.response.status >= 500

\* nothing of the upload hook is in use
UploadIdle ==
    /\ uploads = <<>>
    /\ isUploading = FALSE
    /\ calls = [c \in Calls |-> IdleCall]
    /\ running = 0
    /\ xfer = [id \in Ids |-> "none"]
    /\ poll = [id \in Ids |-> "none"]
    /\ pollN = [id \in Ids |-> 0]
    /\ nextId = 1
    /\ removed = [id \in Ids |-> "no"]
    /\ polledAtCancel = {}
    /\ pollers = [id \in Ids |-> 0]

\* withRetry(operation, retries, delay) has been called
InitRetry ==
    /\ rt \in { [pc |-> "call", retries |-> r, delay |-> d, retries0 |-> r, delay0 |-> d,
                 invoked |-> 0, waits |-> <<>>, error |-> NoError, cause |-> NoError]
                 : r \in 0..MaxRetries, d \in Delays }
    /\ UploadIdle
    /\ ValidateIdle
    /\ HttpIdle
    /\ AuthIdle

\* line 153: operation() is invoked and awaited
InvokeOperation ==
    /\ rt.pc = "call"
    /\ rt' = [rt EXCEPT !.pc = "await", !.invoked = @ + 1]
    /\ UNCHANGED <<uploadVars, validateVars, httpVars, authVars>>

\* line 153: the operation resolves and withRetry returns its result
OperationResolves ==
    /\ rt.pc = "await"
    /\ rt' = [rt EXCEPT !.pc = "returned"]
    /\ UNCHANGED <<uploadVars, validateVars, httpVars, authVars>>

\* lines 154-159: the operation rejects; withRetry waits to try again, or
\* throws the error
OperationRejects(failure) ==
    /\ rt.pc = "await"
    /\ rt' = [rt EXCEPT !.error = Thrown(failure), !.cause = failure.cause,
                        !.pc = IF rt.retries > 0 /\ isRetryableError(Thrown(failure))
                               THEN "sleep" ELSE "thrown"]
    /\ UNCHANGED <<uploadVars, validateVars, httpVars, authVars>>

\* lines 156-157: the delay has passed; withRetry(operation, retries - 1, delay * 2)
RetryTimerFires ==
    /\ rt.pc = "sleep"
    /\ rt' = [rt EXCEPT !.pc = "call", !.waits = Append(@, rt.delay),
                        !.retries = @ - 1, !.delay = @ * 2]
    /\ UNCHANGED <<uploadVars, validateVars, httpVars, authVars>>

NextRetry ==
    \/ InvokeOperation
    \/ OperationResolves
    \/ \E failure \in Failures : OperationRejects(failure)
    \/ RetryTimerFires

SpecRetry == InitRetry /\ [][NextRetry]_vars

----------------------------------------------------------------------------
(* useAuth and the routes of App.tsx: the page loads, initializeAuth
   restores the session, the visitor logs in, logs out and moves between
   routes; after every change of state the router renders the route of the
   current path *)

\* App.tsx lines 78-93: the routes wrapped with requireAuth={false}
PublicPaths == {"/login", "/register"}

\* App.tsx lines 96-155: the routes wrapped with the default requireAuth
ProtectedPaths ==
    {"/dashboard", "/documents", "/calendar", "/policy-comparison", "/settings", "/help"}

Paths == PublicPaths \cup ProtectedPaths

\* requireAuth of the ProtectedRoute around the route of `path`
RequireAuth(path) == path \notin PublicPaths

\* useAuth.ts line 122: Boolean(token && user)
isAuthenticated(a) == Truthy(a.token) /\ Truthy(a.user)

\* Mutant of ProtectedRoute: isLoading is not looked at.
ProtectedRouteNoSpinner(requireAuth, a) ==
    IF requireAuth /\ ~isAuthenticated(a) THEN [shows |-> "navigate", to |-> "/login"]
    ELSE IF ~requireAuth /\ isAuthenticated(a) THEN [shows |-> "navigate", to |-> "/dashboard"]
    ELSE [shows |-> "children", to |-> NoVal]

\* Login.tsx lines 288-311: the element ProtectedRoute returns
ProtectedRoute(requireAuth, a) ==
    IF a.isLoading THEN [shows |-> "spinner", to |-> NoVal]
    ELSE IF requireAuth /\ ~isAuthenticated(a) THEN [shows |-> "navigate", to |-> "/login"]
    ELSE IF ~requireAuth /\ isAuthenticated(a) THEN [shows |-> "navigate", to |-> "/dashboard"]
    ELSE [shows |-> "children", to |-> NoVal]

\* the router renders the route of `path`; a <Navigate> replaces the path
\* and the route of the new path is rendered
Render(path, a) ==
    LET element == ProtectedRoute(RequireAuth(path), a) IN
    IF element.shows = "navigate"
    THEN [asked |-> path, path |-> element.to,
          shows |-> ProtectedRoute(RequireAuth(element.to), a).shows]
    ELSE [asked |-> path, path |-> path, shows |-> element.shows]

\* the page (re)loads at some path with what localStorage holds
InitAuth ==
    /\ storage \in Sessions
    /\ pathname \in Paths
    /\ auth = NoUser
    /\ loginCall = [pc |-> "idle", failedAt |-> NoVal, cause |-> NoError, error |-> NoSurfaced]
    /\ boot = "pending"
    /\ view = Render(pathname, NoUser)
    /\ http = [op |-> NoVal, phase |-> "idle", error |-> NoError]
    /\ surfaced = NoSurfaced
    /\ UploadIdle
    /\ ValidateIdle
    /\ RetryIdle

\* the state changed: React renders again at the current path
Rerender ==
    /\ view' = Render(pathname, auth')
    /\ pathname' = view'.path

\* window.location.href = '/login': the page loads again
Reload ==
    /\ auth' = NoUser
    /\ loginCall' = [pc |-> "idle", failedAt |-> NoVal, cause |-> NoError, error |-> NoSurfaced]
    /\ boot' = "pending"
    /\ view' = Render("/login", NoUser)
    /\ pathname' = "/login"

\* useAuth.ts lines 17-25 and 44-46: initializeAuth reads localStorage
initializeAuth ==
    /\ boot = "pending"
    /\ IF Truthy(storage.auth_token) /\ Truthy(storage.user_data)
       THEN /\ auth' = [token |-> storage.auth_token, user |-> storage.user_data,
                        isLoading |-> TRUE]
            /\ boot' = "verifying"
       ELSE /\ auth' = [auth EXCEPT !.isLoading = FALSE]
            /\ boot' = "done"
    /\ Rerender
    /\ UNCHANGED <<storage, loginCall, http, surfaced>>
    /\ UNCHANGED <<uploadVars, validateVars, retryVars>>

\* lines 28-30 and 44-46: the stored token is still valid
TokenVerified ==
    /\ boot = "verifying"
    /\ auth' = [auth EXCEPT !.user = "user", !.isLoading = FALSE]
    /\ storage' = [storage EXCEPT !.user_data = "user"]
    /\ boot' = "done"
    /\ Rerender
    /\ UNCHANGED <<loginCall, http, surfaced>>
    /\ UNCHANGED <<uploadVars, validateVars, retryVars>>

\* api.ts lines 46-58, then useAuth.ts lines 31-37 and 44-46: the request
\* for the current user fails
TokenRejected(cause) ==
    /\ boot = "verifying"
    /\ storage' = LoggedOut
    /\ IF Is401(cause) /\ pathname # "/login"
       THEN Reload
       ELSE /\ auth' = [token |-> NoVal, user |-> NoVal, isLoading |-> FALSE]
            /\ boot' = "done"
            /\ Rerender
            /\ UNCHANGED loginCall
    /\ UNCHANGED <<http, surfaced>>
    /\ UNCHANGED <<uploadVars, validateVars, retryVars>>

\* Login.tsx lines 84-88 and useAuth.ts lines 52-57: the form is submitted
loginStart ==
    /\ view.shows = "children"
    /\ view.path = "/login"
    /\ loginCall.pc \in {"idle", "resolved", "rejected"}
    /\ auth' = [auth EXCEPT !.isLoading = TRUE]
    /\ loginCall' = [pc |-> "token", failedAt |-> NoVal, cause |-> NoError,
                     error |-> NoSurfaced]
    /\ Rerender
    /\ UNCHANGED <<storage, boot, http, surfaced>>
    /\ UNCHANGED <<uploadVars, validateVars, retryVars>>

\* lines 57-62: the token arrives; it is stored and the user is requested
loginTokenReceived ==
    /\ loginCall.pc = "token"
    /\ storage' = [storage EXCEPT !.auth_token = "token"]
    /\ auth' = [auth EXCEPT !.token = "token"]
    /\ loginCall' = [loginCall EXCEPT !.pc = "user"]
    /\ Rerender
    /\ UNCHANGED <<boot, http, surfaced>>
    /\ UNCHANGED <<uploadVars, validateVars, retryVars>>

\* lines 62-64 and 72-74: the user arrives
loginUserReceived ==
    /\ loginCall.pc = "user"
    /\ auth' = [auth EXCEPT !.user = "user", !.isLoading = FALSE]
    /\ storage' = [storage EXCEPT !.user_data = "user"]
    /\ loginCall' = [loginCall EXCEPT !.pc = "resolved"]
    /\ Rerender
    /\ UNCHANGED <<boot, http, surfaced>>
    /\ UNCHANGED <<uploadVars, validateVars, retryVars>>

\* Mutant of loginRejected: the catch does not call authAPI.removeToken().
loginRejectedKeepsStorage(cause) ==
    /\ loginCall.pc \in {"token", "user"}
    /\ storage' = IF Is401(cause) THEN LoggedOut ELSE storage
    /\ auth' = [token |-> NoVal, user |-> NoVal, isLoading |-> FALSE]
    /\ loginCall' = [pc |-> "rejected", failedAt |-> loginCall.pc, cause |-> cause,
                     error |-> ApiMethodError(cause)]
    /\ Rerender
    /\ UNCHANGED <<boot, http, surfaced>>
    /\ UNCHANGED <<uploadVars, validateVars, retryVars>>

\* api.ts lines 46-58 (the page is at /login: no redirect), then
\* useAuth.ts lines 66-74: either request of login fails
loginRejected(cause) ==
    /\ loginCall.pc \in {"token", "user"}
    /\ storage' = LoggedOut
    /\ auth' = [token |-> NoVal, user |-> NoVal, isLoading |-> FALSE]
    /\ loginCall' = [pc |-> "rejected", failedAt |-> loginCall.pc, cause |-> cause,
                     error |-> ApiMethodError(cause)]
    /\ Rerender
    /\ UNCHANGED <<boot, http, surfaced>>
    /\ UNCHANGED <<uploadVars, validateVars, retryVars>>

\* useAuth.ts lines 96-103
logout ==
    /\ view.shows = "children"
    /\ isAuthenticated(auth)
    /\ storage' = LoggedOut
    /\ Reload
    /\ UNCHANGED <<http, surfaced>>
    /\ UNCHANGED <<uploadVars, validateVars, retryVars>>

\* the visitor follows a link to another route
navigate(path) ==
    /\ path # pathname
    /\ view' = Render(path, auth)
    /\ pathname' = view'.path
    /\ UNCHANGED <<auth, storage, loginCall, boot, http, surfaced>>
    /\ UNCHANGED <<uploadVars, validateVars, retryVars>>

NextAuth ==
    \/ initializeAuth
    \/ TokenVerified
    \/ \E cause \in AxiosErrors : TokenRejected(cause)
    \/ loginStart
    \/ loginTokenReceived
    \/ loginUserReceived
    \/ \E cause \in AxiosErrors : loginRejected(cause)
    \/ logout
    \/ \E path \in Paths : navigate(path)

SpecAuth == InitAuth /\ [][NextAuth]_vars

----------------------------------------------------------------------------
(* Properties *)

Rec(coll, id) == CHOOSE r \in { coll[k] : k \in 1..Len(coll) } : r.id = id

Terminal(r) == r.status \in {"completed", "error"}
Active(r) == r.status \in {"uploading", "processing"}

\* a step of the upload loop of the running call is about to act on `id`
LoopActsOn(id) ==
    /\ running \in Calls
    /\ calls[running].i <= Len(calls[running].ids)
    /\ CurId(running) = id

\* C1: within one uploadFiles call the upload request of a file is issued
\* only when no request of an earlier file of the batch is still unresolved
\* and no later file's request has been issued: initiation follows input
\* order, one request at a time.
C1_SequentialUploads ==
    [][\A c \in Calls : \A k \in 1..Len(calls[c].ids) :
          (xfer[calls[c].ids[k]] = "none" /\ xfer'[calls[c].ids[k]] = "inflight")
          => /\ \A j \in 1..(k - 1) : xfer[calls[c].ids[j]] # "inflight"
             /\ \A j \in (k + 1)..Len(calls[c].ids) : xfer[calls[c].ids[j]] = "none"]_vars

\* the second file of a batch is being uploaded after the first one's request
\* was resolved
C1_Witness ==
    \E c \in Calls :
        /\ Len(calls[c].ids) >= 2
        /\ xfer[calls[c].ids[1]] \in {"ok", "failed"}
        /\ xfer[calls[c].ids[2]] = "inflight"

\* C2: a record that is completed or error is never changed again: in every
\* step it either stays in the collection with all fields equal, or it is
\* removed, and only cancelUpload or clearCompleted remove it.
C2_TerminalStability ==
    [][\A k \in 1..Len(uploads) :
          Terminal(uploads[k])
          => \/ /\ Has(uploads', uploads[k].id)
                /\ Rec(uploads', uploads[k].id) = uploads[k]
             \/ /\ ~Has(uploads', uploads[k].id)
                /\ clearCompleted \/ cancelUpload(uploads[k].id)]_vars

\* a poller has ended on a terminal record that is still in the collection,
\* and the upload loop of its call is still running for a later file
C2_Witness ==
    \E c \in Calls :
        /\ Len(calls[c].ids) >= 2
        /\ calls[c].pc = "await"
        /\ calls[c].i = 2
        /\ poll[calls[c].ids[1]] = "stopped"
        /\ Has(uploads, calls[c].ids[1])
        /\ Terminal(Rec(uploads, calls[c].ids[1]))

\* C3: an id cancelUpload was called with is never in the collection again,
\* and whatever happens later for that id (a second cancelUpload, its poll
\* timer firing, its status response arriving, a step of the upload loop for
\* it) leaves the collection as it was.
C3_CancelNeverResurrects ==
    [][/\ \A id \in cancelled' : ~Has(uploads', id)
       /\ \A id \in cancelled :
             (\/ cancelUpload(id)
              \/ poll'[id] # poll[id]
              \/ pollN'[id] # pollN[id]
              \/ LoopActsOn(id))
             => uploads' = uploads]_vars

\* the upload loop has resumed for a record that was cancelled while its
\* upload request was in flight and is about to update it again, while
\* another record is in the collection
C3_Witness ==
    \E c \in Calls :
        /\ running = c
        /\ calls[c].pc = "branch"
        /\ CurId(c) \in cancelled
        /\ Len(uploads) >= 1

\* C4: when an uploadFiles call has finished, every file of the batch was
\* dealt with whatever happened to the files before it: a valid file's
\* upload request was sent and resolved, an invalid file's never sent; no
\* record of the batch is left uploading, and the record of a file that
\* failed validation or transport is error.
C4_BatchIsolation ==
    \A c \in Calls :
        calls[c].pc = "done"
        => \A k \in 1..Len(calls[c].files) :
              LET id == calls[c].ids[k]
                  valid == validateFile(calls[c].files[k], DefaultRules).isValid
              IN /\ valid => xfer[id] \in {"ok", "failed"}
                 /\ ~valid => xfer[id] = "none"
                 /\ Has(uploads, id)
                    => /\ Rec(uploads, id).status # "uploading"
                       /\ (~valid \/ xfer[id] = "failed")
                          => Rec(uploads, id).status = "error"

\* a finished batch whose first file failed (validation or transport) and
\* whose second file was uploaded; both records are still there
C4_Witness ==
    \E c \in Calls :
        /\ calls[c].pc = "done"
        /\ Len(calls[c].ids) >= 2
        /\ xfer[calls[c].ids[1]] \in {"none", "failed"}
        /\ xfer[calls[c].ids[2]] = "ok"
        /\ Has(uploads, calls[c].ids[1])
        /\ Rec(uploads, calls[c].ids[1]).status = "error"
        /\ Has(uploads, calls[c].ids[2])
        /\ Rec(uploads, calls[c].ids[2]).status \in {"processing", "completed"}

\* C5: in every state every error record has progress 0, every completed
\* record has progress 100, and only error records carry an error message.
C5_StatusProgress ==
    \A k \in 1..Len(uploads) :
        /\ uploads[k].status = "error" => uploads[k].progress = 0
        /\ uploads[k].status = "completed" => uploads[k].progress = 100
        /\ uploads[k].error # NoVal => uploads[k].status = "error"

\* an error record made by a failed poll next to a completed record
C5_Witness ==
    \E k, j \in 1..Len(uploads) :
        /\ uploads[k].status = "error"
        /\ uploads[k].documentId # NoVal
        /\ uploads[k].error # NoVal
        /\ uploads[j].status = "completed"

\* the status changes of the state machine of section 4.4
Transitions ==
    { <<"uploading", "error">>, <<"uploading", "completed">>,
      <<"uploading", "processing">>, <<"processing", "completed">>,
      <<"processing", "error">>, <<"processing", "processing">> }

\* C6: in every step, a record that stays in the collection keeps its status
\* or changes it along one of the transitions of the state machine; in
\* particular none goes from processing back to uploading and none leaves
\* completed or error.
C6_StatusTransitions ==
    [][\A k \in 1..Len(uploads) :
          Has(uploads', uploads[k].id)
          => LET from == uploads[k].status
                 to == Rec(uploads', uploads[k].id).status
             IN /\ from # to => <<from, to>> \in Transitions
                /\ to \in {"uploading", "processing", "completed", "error"}
                /\ from = "processing" => to # "uploading"
                /\ Terminal(uploads[k]) => to = from]_vars

\* a record that went uploading -> processing -> processing (a poll that
\* found it still processing) -> error, next to a completed one
C6_Witness ==
    \E id \in Ids :
        /\ Has(uploads, id)
        /\ Rec(uploads, id).status = "error"
        /\ pollN[id] >= 1
        /\ poll[id] = "stopped"

\* C7: the progress of a record never decreases, except in the step that
\* moves the record into error, which sets it to 0.
C7_ProgressMonotone ==
    [][\A k \in 1..Len(uploads) :
          Has(uploads', uploads[k].id)
          => LET old == uploads[k]
                 new == Rec(uploads', uploads[k].id)
             IN /\ (Active(old) /\ Active(new)) => new.progress >= old.progress
                /\ new.progress < old.progress
                   => /\ old.status # "error"
                      /\ new.status = "error"
                      /\ new.progress = 0]_vars

\* a record at progress 90 after a poll that found it still processing
C7_Witness ==
    \E id \in Ids :
        /\ Has(uploads, id)
        /\ Rec(uploads, id).status = "processing"
        /\ Rec(uploads, id).progress = 90
        /\ pollN[id] >= 1

\* C8: a clearCompleted step leaves exactly the uploading/processing records,
\* each with the field values it had, in the order they were in.
C8_ClearCompletedSelective ==
    [][clearCompleted
       => /\ \A k \in 1..Len(uploads') : Active(uploads'[k])
          /\ \A k \in 1..Len(uploads) :
                IF Active(uploads[k])
                THEN Has(uploads', uploads[k].id)
                     /\ Rec(uploads', uploads[k].id) = uploads[k]
                ELSE ~Has(uploads', uploads[k].id)
          /\ Len(uploads') = Cardinality({ k \in 1..Len(uploads) : Active(uploads[k]) })
          /\ \A k, j \in 1..Len(uploads') :
                k < j => \E a, b \in 1..Len(uploads) :
                            a < b /\ uploads[a] = uploads'[k] /\ uploads[b] = uploads'[j]]_vars

\* clearCompleted has removed the first record of a batch and kept the
\* second, which is still uploading or processing
C8_Witness ==
    \E c \in Calls :
        /\ Len(calls[c].ids) >= 2
        /\ removed[calls[c].ids[1]] = "clear"
        /\ Has(uploads, calls[c].ids[2])
        /\ Active(Rec(uploads, calls[c].ids[2]))

\* C9: once cancelUpload removed a record that had a poller attached, that
\* poller issues no further status request and schedules no further poll.
C9_CancelStopsPolling ==
    [][\A id \in polledAtCancel :
          /\ poll'[id] = "inflight" => poll[id] = "inflight"
          /\ poll'[id] = "timer" => poll[id] = "timer"]_vars

\* C10: at most one upload request is in flight at any time.
C10_OneUploadInFlight ==
    Cardinality({ id \in Ids : xfer[id] = "inflight" }) <= 1


\* the size message for the limits of RuleSets: 1.5MB rounds to 2
SizeMessage(maxSize) ==
    CASE maxSize = 1572864 -> "File size must be less than 2MB"
      [] maxSize = 10485760 -> "File size must be less than 10MB"
      [] maxSize = MAX_FILE_SIZE -> "File size must be less than 50MB"

\* C18: validateFile returns (it is total on every file and rule set), with
\* isValid true exactly when the size is within the limit and the type is in
\* the allow-list; a valid result has no error; over the size limit the error
\* is the size message with the limit in rounded MB, whatever the type.
C18_ValidateFile ==
    vOut # <<>>
    => LET r == vOut[1]
           f == vIn.file
           rules == vIn.rules
       IN /\ r.isValid \in BOOLEAN
          /\ r.isValid <=> (f.size <= rules.maxSize /\ f.type \in rules.allowedTypes)
          /\ r.isValid => r.error = NoVal
          /\ ~r.isValid => r.error # NoVal
          /\ f.size > rules.maxSize => r.error = SizeMessage(rules.maxSize)

\* the example of the specification, with a type that is not allowed either:
\* 11000000 bytes against 10485760 gives the 10MB size message
C18_Witness ==
    /\ vOut # <<>>
    /\ vIn.file.size = 11000000
    /\ vIn.rules.maxSize = 10485760
    /\ vIn.file.type \notin vIn.rules.allowedTypes
    /\ vOut[1] = [isValid |-> FALSE, error |-> "File size must be less than 10MB"]


\* C11: a 401 response to any authenticated call leaves localStorage without
\* token and without user record.
C11_Unauthorized401ClearsSession ==
    [][(http.phase = "inflight" /\ http'.phase = "done" /\ Is401(http'.error))
       => storage' = LoggedOut]_vars

\* the message the specification prefers for a failed request: the server's
\* detail, else the server's message, else the transport-level message
PreferredMessage(error) ==
    LET body == error.response.data
        fromServer == error.response.present /\ body.kind = "object"
    IN IF fromServer /\ Truthy(body.detail) THEN body.detail
       ELSE IF fromServer /\ Truthy(body.message) THEN body.message
       ELSE error.message

\* C20: the Error of a failed document-service request carries the server's
\* detail, else the server's message, else the transport-level message when
\* there is one, and a generic string only when there is none of them.
C20_ErrorMessagePreference ==
    (http.phase = "done" /\ http.op \in HttpOps \ {"me"} /\ surfaced.kind = "Error")
    => IF Truthy(PreferredMessage(http.error))
       THEN surfaced.message = PreferredMessage(http.error)
       ELSE surfaced.message \in {"An error occurred", "An unexpected error occurred"}


\* C12: an uploadFiles call with files appends one record per file, in the
\* order of the files, each uploading at progress 0 with a fresh id, after
\* the records that were there, which stay as they were; a call with no
\* files changes neither the collection nor isUploading.
C12_InvokeAppendsRecords ==
    [][\A c \in Calls :
          (calls[c].pc = "idle" /\ calls'[c].pc # "idle")
          => IF calls'[c].pc = "done"
             THEN uploads' = uploads /\ isUploading' = isUploading
             ELSE LET files == calls'[c].files
                      n == Len(uploads)
                  IN /\ Len(files) > 0
                     /\ Len(uploads') = n + Len(files)
                     /\ \A k \in 1..n : uploads'[k] = uploads[k]
                     /\ \A k \in 1..Len(files) :
                           /\ uploads'[n + k].status = "uploading"
                           /\ uploads'[n + k].progress = 0
                           /\ uploads'[n + k].fileName = files[k].name
                           /\ uploads'[n + k].id = calls'[c].ids[k]
                           /\ uploads'[n + k].id \notin IdsOf(uploads)
                           /\ uploads'[n + k].error = NoVal
                     /\ Cardinality(IdsOf(uploads')) = Len(uploads')]_vars

\* the second call has just appended its record behind the record of the
\* first call, which is past its creation state
C12_Witness ==
    /\ running = 2
    /\ calls[2].pc = "top"
    /\ calls[2].i = 1
    /\ Len(uploads) = 2
    /\ uploads[1].progress > 0
    /\ uploads[2].status = "uploading"
    /\ uploads[2].progress = 0

FailedStatusRequest == [ok |-> FALSE, status |-> NoVal, error_message |-> NoVal]

\* C14: when the status request of a poller fails, the record (if still
\* there) becomes error with 'Failed to check processing status' and
\* progress 0, its other fields unchanged, and the poller stops; a stopped
\* poller never has a timer or a request again.
C14_PollFailureStops ==
    [][\A id \in Ids :
          /\ PollResolve(id, FailedStatusRequest)
             => /\ poll'[id] = "stopped"
                /\ Has(uploads, id)
                   => /\ Has(uploads', id)
                      /\ Rec(uploads', id) =
                            [Rec(uploads, id) EXCEPT
                                !.status = "error", !.progress = 0,
                                !.error = "Failed to check processing status"]
          /\ poll[id] = "stopped" => poll'[id] = "stopped"]_vars

\* a record that a failed status request has made error
C14_Witness ==
    \E id \in Ids :
        /\ Has(uploads, id)
        /\ Rec(uploads, id).error = "Failed to check processing status"
        /\ Rec(uploads, id).status = "error"
        /\ poll[id] = "stopped"

\* C15: a status response completed makes the record (if still there)
\* completed at 100; a response failed makes it error at 0 with the server's
\* error_message, or 'Processing failed' without one; either way the poller
\* stops.
C15_TerminalPollResponses ==
    [][\A id \in Ids : \A resp \in StatusOutcomes :
          (resp.ok /\ resp.status \in {"completed", "failed"} /\ PollResolve(id, resp))
          => /\ poll'[id] = "stopped"
             /\ Has(uploads, id)
                => /\ Has(uploads', id)
                   /\ Rec(uploads', id) =
                         IF resp.status = "completed"
                         THEN [Rec(uploads, id) EXCEPT !.status = "completed", !.progress = 100]
                         ELSE [Rec(uploads, id) EXCEPT
                                  !.status = "error", !.progress = 0,
                                  !.error = IF resp.error_message = NoVal
                                            THEN "Processing failed"
                                            ELSE resp.error_message]]_vars

\* a record made error by the server's error_message next to a record a
\* poll has completed
C15_Witness ==
    \E a, b \in Ids :
        /\ Has(uploads, a) /\ Has(uploads, b)
        /\ Rec(uploads, a).status = "error"
        /\ Rec(uploads, a).error = "OCR failed"
        /\ poll[a] = "stopped"
        /\ Rec(uploads, b).status = "completed"
        /\ poll[b] = "stopped"

\* C16: the step after a successful upload: for status pending or processing
\* the record (if still there) becomes processing at 90 and its poller, which
\* did not exist, has its first timer pending; for any other status the
\* record becomes completed at 100 and no poller exists; nobody else's
\* poller is touched.
C16_AfterTransportSuccess ==
    [][\A c \in Calls :
          (running = c /\ calls[c].pc = "branch")
          => LET id == CurId(c)
                 status == calls[c].result.status
             IN /\ \A other \in Ids \ {id} : poll'[other] = poll[other]
                /\ poll[id] = "none"
                /\ IF status \in {"pending", "processing"}
                   THEN /\ poll'[id] = "timer"
                        /\ Has(uploads, id)
                           => /\ Rec(uploads', id).status = "processing"
                              /\ Rec(uploads', id).progress = 90
                              /\ Rec(uploads', id).documentId = calls[c].result.id
                   ELSE /\ poll'[id] = "none"
                        /\ Has(uploads, id)
                           => /\ Rec(uploads', id).status = "completed"
                              /\ Rec(uploads', id).progress = 100
                              /\ Rec(uploads', id).documentId = calls[c].result.id]_vars

\* one record was sent to processing with its first poll pending, another
\* was completed by the upload response and has no poller
C16_Witness ==
    \E a, b \in Ids :
        /\ Has(uploads, a) /\ Has(uploads, b)
        /\ Rec(uploads, a).status = "processing"
        /\ Rec(uploads, a).progress = 90
        /\ poll[a] = "timer" /\ pollN[a] = 0
        /\ Rec(uploads, b).status = "completed"
        /\ poll[b] = "none"

\* the file breaks the default policy of constants/api.ts
Invalid(file) == file.size > MAX_FILE_SIZE \/ file.type \notin ALLOWED_TYPES

\* C17: for a file that breaks the validation policy no upload request is
\* ever issued, and once the loop is past it its record (if still there) is
\* error at progress 0 with the message of validateFile.
C17_InvalidFileNeverUploaded ==
    \A c \in Calls : \A k \in 1..Len(calls[c].files) :
        Invalid(calls[c].files[k])
        => /\ xfer[calls[c].ids[k]] = "none"
           /\ poll[calls[c].ids[k]] = "none"
           /\ (calls[c].i > k /\ Has(uploads, calls[c].ids[k]))
              => /\ Rec(uploads, calls[c].ids[k]).status = "error"
                 /\ Rec(uploads, calls[c].ids[k]).progress = 0
                 /\ Rec(uploads, calls[c].ids[k]).error # NoVal
                 /\ Rec(uploads, calls[c].ids[k]).error =
                       validateFile(calls[c].files[k], DefaultRules).error

\* a finished batch of a file of a type outside the allow-list and a file
\* that was uploaded: the first record carries the type message
C17_Witness ==
    \E c \in Calls :
        /\ calls[c].pc = "done"
        /\ Len(calls[c].files) >= 2
        /\ calls[c].files[1].type = "text/plain"
        /\ xfer[calls[c].ids[2]] = "ok"
        /\ Has(uploads, calls[c].ids[1])
        /\ Rec(uploads, calls[c].ids[1]).error =
              "File type not supported. Allowed types: " \o ALLOWED_EXTENSIONS

\* C19: an uploadFiles call never ends in rejection; the step that ends it
\* comes after the last file, sets isUploading to false, and leaves every
\* file that failed validation or transport with a record (if still there)
\* that is error and carries a message.
C19_UploadFilesNeverRejects ==
    [][\A c \in Calls :
          /\ calls'[c].pc # "rejected"
          /\ (calls[c].pc = "top" /\ calls'[c].pc = "done")
             => /\ isUploading' = FALSE
                /\ calls[c].i > Len(calls[c].files)
                /\ \A k \in 1..Len(calls[c].files) :
                      LET id == calls[c].ids[k] IN
                      ((Invalid(calls[c].files[k]) \/ xfer[id] = "failed")
                         /\ Has(uploads', id))
                      => /\ Rec(uploads', id).status = "error"
                         /\ Truthy(Rec(uploads', id).error)]_vars

\* a call has ended normally after a validation failure and a transport
\* failure; isUploading is false and both records are error
C19_Witness ==
    \E c \in Calls :
        /\ calls[c].pc = "done"
        /\ ~isUploading
        /\ Len(calls[c].files) >= 2
        /\ Invalid(calls[c].files[1])
        /\ xfer[calls[c].ids[2]] = "failed"
        /\ \A k \in 1..2 : /\ Has(uploads, calls[c].ids[k])
                           /\ Rec(uploads, calls[c].ids[k]).status = "error"


\* only the record with this id may differ between the collections: same
\* length, same ids at the same places, every other record identical
OnlyRecordChanged(prev, next, id) ==
    /\ Len(next) = Len(prev)
    /\ \A k \in 1..Len(prev) :
          /\ next[k].id = prev[k].id
          /\ prev[k].id # id => next[k] = prev[k]

\* C21: a step of the upload loop for the file with record id r, and the
\* answer to a status request of the poller of r, change at most the record
\* with id r: the other records keep all their fields, and the number and
\* the order of the records stay the same.
C21_UpdatesTouchOneRecord ==
    [][/\ \A c \in Calls :
             (running = c /\ calls[c].pc # "top")
             => OnlyRecordChanged(uploads, uploads', CurId(c))
       /\ \A c \in Calls :
             (running = c /\ calls[c].pc = "top" /\ calls[c].i <= Len(calls[c].files))
             => OnlyRecordChanged(uploads, uploads', CurId(c))
       /\ \A id \in Ids :
             (poll[id] = "inflight" /\ poll'[id] # "inflight")
             => OnlyRecordChanged(uploads, uploads', id)]_vars

\* two records, the first made completed by its poller and the second
\* untouched by that, still processing behind it
C21_Witness ==
    /\ Len(uploads) = 2
    /\ uploads[1].status = "completed"
    /\ poll[uploads[1].id] = "stopped"
    /\ uploads[2].status = "processing"
    /\ uploads[2].progress = 90


\* C23: when the service reports failed for a document, in the upload
\* response or in a status response, the record (if still there) is error
\* after the step that handles the report, not completed.
C23_FailedNeverCompleted ==
    [][/\ \A c \in Calls :
             (running = c /\ calls[c].pc = "branch" /\ calls[c].result.status = "failed"
                /\ Has(uploads', CurId(c)))
             => Rec(uploads', CurId(c)).status = "error"
       /\ \A id \in Ids : \A resp \in StatusOutcomes :
             (resp.ok /\ resp.status = "failed" /\ PollResolve(id, resp) /\ Has(uploads', id))
             => Rec(uploads', id).status = "error"]_vars

\* C24: a file whose record is cancelled before its upload request was
\* issued never gets an upload request and never gets a poller.
C24_CancelBeforeTransport ==
    [][\A id \in Ids :
          (removed[id] = "cancel" /\ xfer[id] = "none")
          => (xfer'[id] = "none" /\ poll'[id] = "none")]_vars

\* C25: isUploading is true exactly while some uploadFiles call has started
\* and has not finished its loop.
C25_IsUploadingWhileAnyCallRuns ==
    isUploading <=> (\E c \in Calls : calls[c].pc \notin {"idle", "done"})


\* C27: a record never has more than one poll callback pending or in
\* flight, and it has one exactly while its poller is attached.
C27_AtMostOnePollPerRecord ==
    \A id \in Ids :
        /\ pollers[id] <= 1
        /\ pollers[id] = 1 <=> PollerAttached(id)

\* the second status request of a poller is in flight, after the first
\* answer rescheduled it, and it is the only callback of its record
C27_Witness ==
    \E id \in Ids :
        /\ pollN[id] = MaxPolls
        /\ poll[id] = "inflight"
        /\ pollers[id] = 1


\* C26: under the fairness of SpecLive, from some moment on every record
\* that is still in the collection has status completed or error and no
\* poll of its poller is pending: every record that is not removed settles,
\* and nothing is scheduled for it afterwards.
C26_EveryRecordSettles ==
    <>[](\A id \in Ids :
            Has(uploads, id)
            => (Rec(uploads, id).status \in {"completed", "error"} /\ ~PollerAttached(id)))

\* both records of a batch have settled, one through its poller after a
\* non-terminal answer, and no call is left running
C26_Witness ==
    /\ Len(uploads) = 2
    /\ \A c \in Calls : calls[c].pc \in {"idle", "done"}
    /\ \A k \in 1..2 : uploads[k].status \in {"completed", "error"}
    /\ \E k \in 1..2 : poll[uploads[k].id] = "stopped" /\ pollN[uploads[k].id] = MaxPolls
    /\ \A id \in Ids : ~PollerAttached(id)


\* C29: when getCurrentUser is rejected with a body that carries detail,
\* the error thrown to the caller carries that detail and the status code
\* of the response.
C29_AuthErrorKeepsDetail ==
    (/\ http.phase = "done"
     /\ http.op = "me"
     /\ http.error.response.present
     /\ http.error.response.data.kind = "object"
     /\ Truthy(http.error.response.data.detail))
    => /\ surfaced.detail = http.error.response.data.detail
       /\ surfaced.status_code = http.error.response.status


\* the request failed with a 4xx response
ClientError(cause) ==
    cause.response.present /\ cause.response.status >= 400 /\ cause.response.status < 500

RECURSIVE Pow2(_)
Pow2(n) == IF n = 0 THEN 1 ELSE 2 * Pow2(n - 1)

\* C30: withRetry invokes the operation at most retries + 1 times, waits
\* delay, 2 * delay, 4 * delay, ... between invocations, and never waits to
\* try again after a failure with a 4xx status, the errors thrown by the
\* service's own API methods included.
C30_WithRetry ==
    /\ rt.invoked <= rt.retries0 + 1
    /\ \A k \in 1..Len(rt.waits) : rt.waits[k] = rt.delay0 * Pow2(k - 1)
    /\ rt.pc = "sleep" => ~ClientError(rt.cause)


\* C22: the children of a route that requires authentication are on screen
\* only while isLoading is false and the visitor is authenticated; while
\* isLoading the spinner is on screen; an unauthenticated visitor who asks
\* for a protected route ends at /login, and an authenticated visitor who
\* asks for a public route ends at /dashboard.
C22_RouteProtection ==
    /\ (view.shows = "children" /\ RequireAuth(view.path))
       => (~auth.isLoading /\ isAuthenticated(auth))
    /\ auth.isLoading <=> view.shows = "spinner"
    /\ (~auth.isLoading /\ RequireAuth(view.asked) /\ ~isAuthenticated(auth))
       => (view.path = "/login" /\ view.shows = "children")
    /\ (~auth.isLoading /\ ~RequireAuth(view.asked) /\ isAuthenticated(auth))
       => (view.path = "/dashboard" /\ view.shows = "children")
    /\ (view.shows = "children" /\ ~RequireAuth(view.path)) => ~isAuthenticated(auth)

\* the visitor has logged in at /login and was taken to /dashboard, whose
\* children are on screen
C22_Witness ==
    /\ loginCall.pc = "resolved"
    /\ view = [asked |-> "/login", path |-> "/dashboard", shows |-> "children"]
    /\ isAuthenticated(auth)

\* C28: once login() has rejected, after the token request or after the
\* request for the user, token and user are null in memory, localStorage
\* holds neither, isLoading is false and the caller has the error.
C28_LoginFailureCleansUp ==
    loginCall.pc = "rejected"
    => /\ auth.token = NoVal
       /\ auth.user = NoVal
       /\ storage = LoggedOut
       /\ ~auth.isLoading
       /\ loginCall.error = ApiMethodError(loginCall.cause)
       /\ loginCall.error.kind = "APIError"

\* login() obtained a token and then failed on the request for the user
C28_Witness ==
    /\ loginCall.pc = "rejected"
    /\ loginCall.failedAt = "user"
    /\ storage = LoggedOut
    /\ auth.token = NoVal

====
